---- MODULE Spec2Model ----
(***************************************************************************)
(* Model of oz-calendar's periodic-note creation:                          *)
(*   src/src/util/noteCreation.ts  (openOrCreateNote and its helpers)      *)
(*   src/src/noteHandlers.ts       (the calendar handlers that call it)    *)
(*                                                                         *)
(* Strings are sequences of one-character strings, so that path building,  *)
(* lastIndexOf, substring and split are computed as the code computes      *)
(* them.  One invocation of an async function is a process; it runs        *)
(* without interruption up to an await of a host promise (vault I/O, the   *)
(* Templater call, the timer, the editor), where other invocations and     *)
(* the host may run.  An await of an already settled promise only yields   *)
(* to the microtask queue, so no other invocation runs there: `turn`       *)
(* names the invocation that holds the JavaScript thread (0: none).        *)
(***************************************************************************)
EXTENDS Integers, Sequences, FiniteSets, TLC

\* ------------------------------------------------------------------ bounds

\* Number of openOrCreateNote invocations that may be in flight together.
MaxInvocations == 2
MaxWeeks == 2
\* Granularity of the host clock, in milliseconds.
TickMs == 300

\* --------------------------------------------------------------- constants

\* setTimeout(resolve, 300) in createNoteWithTemplate.
DelayMs == 300

Procs == 1..MaxInvocations

\* ----------------------------------------------------------------- strings

Slash == "/"
MdExt == <<".", "m", "d">>
EmptyStr == <<>>

Min2(a, b) == IF a < b THEN a ELSE b
Max2(a, b) == IF a > b THEN a ELSE b

\* String.prototype.lastIndexOf(c): 0-based index of the last c, -1 if none.
LastIndexOf(s, c) ==
    LET hits == {i \in 1..Len(s) : s[i] = c}
    IN  IF hits = {} THEN -1
        ELSE (CHOOSE i \in hits : \A j \in hits : j <= i) - 1

\* String.prototype.substring(from, to): arguments below 0 count as 0, above
\* the length as the length, and are swapped when from > to.
Substring(s, from, to) ==
    LET a  == Min2(Max2(from, 0), Len(s))
        b  == Min2(Max2(to, 0), Len(s))
        lo == Min2(a, b)
        hi == Max2(a, b)
    IN  SubSeq(s, lo + 1, hi)

\* String.prototype.substring(from): to the end of the string.
SubstringFrom(s, from) == Substring(s, from, Len(s))

\* String.prototype.split(c): the pieces between the occurrences of c.
RECURSIVE Split(_, _)
Split(s, c) ==
    LET hits == {i \in 1..Len(s) : s[i] = c}
    IN  IF hits = {} THEN <<s>>
        ELSE LET i == CHOOSE k \in hits : \A j \in hits : k <= j
             IN  <<SubSeq(s, 1, i - 1)>> \o Split(SubSeq(s, i + 1, Len(s)), c)

\* ------------------------------------------------------------------- vault

\* A vault entry: a file or a folder at a path.  data tells how a file got
\* its content: "empty" (vault.create(path, '')), "templated" (Templater),
\* "user" (there before), "none" for folders.
FileEntry(path, data) == [path |-> path, kind |-> "file", data |-> data]
FolderEntry(path) == [path |-> path, kind |-> "folder", data |-> "none"]

\* Vault.getAbstractFileByPath(path): the entries at path (empty: null).
GetAbstractFileByPath(v, path) == {e \in v : e.path = path}

Truthy(found) == found # {}

\* file instanceof TFile
IsTFile(found) == \E e \in found : e.kind = "file"

\* ------------------------------------------------------------------- state

VARIABLES
    vault,           \* the vault: a set of entries
    plugins,         \* app.plugins.plugins['templater-obsidian']:
                     \*   "absent", "noTemplater" (no .templater object), "ready"
    turn,            \* the invocation running JavaScript now, 0 if none
    pc,              \* pc[p]: where invocation p is
    config,          \* config[p]: the NoteCreationConfig it was called with
    filePath,        \* openOrCreateNote's filePath
    existingFile,    \* openExistingNote's existingFile
    templaterPlugin, \* openOrCreateNote's templaterPlugin
    templateFile,    \* openOrCreateNote's templateFile
    fullDir,         \* openOrCreateNote's fullDir
    parts,           \* ensureFoldersExist's parts
    idx,             \* ensureFoldersExist: number of parts the loop has taken
    currentPath,     \* ensureFoldersExist's currentPath
    timer,           \* milliseconds left on the invocation's setTimeout, -1 if none
    calls,           \* calls[p]: the host calls invocation p has made, in order
    vault0,          \* history: the vault before any invocation
    settings,        \* the plugin's settings (formats, folders, templates)
    dailyNotes,      \* app.internalPlugins.plugins['daily-notes']
    rejected,        \* history: rejected[p]: the indices in calls[p] of the
                     \*   host calls whose promise rejected
    event            \* event[p]: the DOM event handled by invocation p, if any

hostVars == <<vault, plugins, vault0, settings, dailyNotes, rejected>>
locals == <<config, filePath, existingFile, templaterPlugin, templateFile,
            fullDir, parts, idx, currentPath>>
vars == <<vault, plugins, turn, pc, config, filePath, existingFile,
          templaterPlugin, templateFile, fullDir, parts, idx, currentPath,
          timer, calls, vault0, settings, dailyNotes, rejected, event>>

\* A host call: the function of noteCreation.ts that made it, the host
\* operation, the path it names, and whether it asks the host to open the
\* note in the editor.
Call(by, op, path, open) == [by |-> by, op |-> op, path |-> path, open |-> open]

\* ------------------------------------------------------------------ inputs

FileNames == {<<"a">>, <<"b", Slash, "a">>}
Folders == {EmptyStr, <<"n">>}
TemplatePaths == {EmptyStr, <<"t">>}
\* The notes asked for: every name in every folder without a template; with
\* a template, the note at the vault's root and the note two folders down.
Configs ==
    {c \in [fileName : FileNames, folder : Folders, templatePath : TemplatePaths] :
        c.templatePath # EmptyStr => ((c.fileName = <<"a">>) <=> (c.folder = EmptyStr))}

TemplateVaults ==
    { {}, {FileEntry(<<"t">> \o MdExt, "user")}, {FolderEntry(<<"t">> \o MdExt)} }
NoteVaults ==
    { {},
      {FolderEntry(<<"n">>), FileEntry(<<"n", Slash, "a">> \o MdExt, "user")} }
InitVaults == {t \cup n : t \in TemplateVaults, n \in NoteVaults}
PluginStates == {"absent", "noTemplater", "ready"}
\* The host configurations explored: every vault with Templater ready, and a
\* missing or incomplete plugin where a template file is there to be used.
HostStates ==
    {h \in [vault : InitVaults, plugins : PluginStates] :
        h.plugins # "ready" => IsTFile(GetAbstractFileByPath(h.vault, <<"t">> \o MdExt))}

\* --------------------------------------------------- dates (dayjs), labels

\* Texts are sequences of words here; a date is a year, a month index
\* (0..11) and a day of the month.
MonthsShort == <<"Jan", "Feb", "Mar", "Apr", "May", "Jun",
                 "Jul", "Aug", "Sep", "Oct", "Nov", "Dec">>
Months == <<"January", "February", "March", "April", "May", "June",
            "July", "August", "September", "October", "November", "December">>
Years == {"2024"}
TwoDigits == <<"01", "02", "03", "04", "05", "06", "07", "08", "09", "10", "11", "12">>
DayWords == <<"1", "2", "3", "4", "5", "6", "7", "8", "9", "10", "11", "12", "13", "14",
              "15", "16", "17", "18", "19", "20", "21", "22", "23", "24", "25", "26",
              "27", "28", "29", "30", "31">>
DayTwoDigits == <<"01", "02", "03", "04", "05", "06", "07", "08", "09", "10", "11", "12",
                  "13", "14", "15", "16", "17", "18", "19", "20", "21", "22", "23", "24",
                  "25", "26", "27", "28", "29", "30", "31">>
OneDigit == <<"1", "2", "3", "4">>

InvalidDate == [year |-> "NaN", month |-> -1, date |-> -1]

IsValid(d) == d # InvalidDate

\* The index of word w in table t, 0 if it is not there.
IndexIn(t, w) ==
    IF \E i \in DOMAIN t : t[i] = w THEN CHOOSE i \in DOMAIN t : t[i] = w ELSE 0

\* dayjs(text, format), text and format given as their words: every word of
\* the text has to match the token of the format at its place (a month name
\* of the token's table, a year, a day of the month, or the literal word); the
\* day of the month defaults to 1.
Dayjs(text, format) ==
    LET Matches(i) ==
            CASE format[i] = "MMM"  -> IndexIn(MonthsShort, text[i]) # 0
              [] format[i] = "MMMM" -> IndexIn(Months, text[i]) # 0
              [] format[i] = "YYYY" -> text[i] \in Years
              [] format[i] = "D"    -> IndexIn(DayWords, text[i]) # 0
              [] format[i] = "DD"   -> IndexIn(DayTwoDigits, text[i]) # 0
              [] OTHER              -> text[i] = format[i]
        At(toks) == {i \in DOMAIN format : format[i] \in toks}
    IN  IF Len(text) # Len(format) \/ \E i \in DOMAIN format : ~Matches(i)
           \/ At({"MMM", "MMMM"}) = {} \/ At({"YYYY"}) = {}
        THEN InvalidDate
        ELSE LET mi == CHOOSE i \in At({"MMM", "MMMM"}) : TRUE
                 yi == CHOOSE i \in At({"YYYY"}) : TRUE
                 m  == IF format[mi] = "MMM" THEN IndexIn(MonthsShort, text[mi])
                       ELSE IndexIn(Months, text[mi])
                 d  == IF At({"D", "DD"}) = {} THEN 1
                       ELSE LET di == CHOOSE i \in At({"D", "DD"}) : TRUE
                            IN  IF format[di] = "D" THEN IndexIn(DayWords, text[di])
                                ELSE IndexIn(DayTwoDigits, text[di])
             IN  [year |-> text[yi], month |-> m - 1, date |-> d]

\* parseDate: the first format the text parses with; null (InvalidDate) if none.
RECURSIVE ParseDate(_, _)
ParseDate(text, formats) ==
    IF formats = <<>> THEN InvalidDate
    ELSE LET date == Dayjs(text, Head(formats))
         IN  IF IsValid(date) THEN date ELSE ParseDate(text, Tail(formats))

\* dayjs: .startOf('month') and .month(m)
StartOfMonth(d) == [d EXCEPT !.date = 1]
SetMonth(d, m) == [d EXCEPT !.month = m]

\* Math.ceil(a / b) for positive b
CeilDiv(a, b) == (a + b - 1) \div b

\* dayjs: .format(fmt), fmt given as its tokens; an invalid date formats as
\* 'Invalid Date' whatever the format.
RECURSIVE FormatValid(_, _)
FormatValid(d, fmt) ==
    IF fmt = <<>> THEN <<>>
    ELSE LET tok == Head(fmt)
             out == CASE tok = "YYYY" -> d.year
                      [] tok = "MM"   -> TwoDigits[d.month + 1]
                      [] tok = "DD"   -> DayTwoDigits[d.date]
                      [] tok = "D"    -> DayWords[d.date]
                      [] tok = "Q"    -> OneDigit[CeilDiv(d.month + 1, 3)]
                      [] OTHER        -> tok
         IN  <<out>> \o FormatValid(d, Tail(fmt))

Format(d, fmt) == IF IsValid(d) THEN FormatValid(d, fmt) ELSE <<"Invalid Date">>

SettingsSet ==
    { [monthlyNoteFormat |-> <<"YYYY", "-", "MM">>, monthlyNoteFolder |-> <<"n">>,
       monthlyNoteTemplate |-> <<"t">>,
       quarterlyNoteFormat |-> <<"YYYY", Slash, "Q">>, quarterlyNoteFolder |-> EmptyStr,
       quarterlyNoteTemplate |-> EmptyStr,
       weeklyNoteFormat |-> <<"YYYY", "-", "MM", "-", "DD">>, weeklyNoteFolder |-> <<"w">>,
       weeklyNoteTemplate |-> EmptyStr],
      [monthlyNoteFormat |-> <<"YYYY", Slash, "MM">>, monthlyNoteFolder |-> EmptyStr,
       monthlyNoteTemplate |-> EmptyStr,
       quarterlyNoteFormat |-> <<"YYYY", "-", "Q">>, quarterlyNoteFolder |-> <<"n">>,
       quarterlyNoteTemplate |-> <<"t">>,
       weeklyNoteFormat |-> <<"YYYY", Slash, "MM", "-", "DD">>, weeklyNoteFolder |-> EmptyStr,
       weeklyNoteTemplate |-> <<"t">>] }
DefaultSettings == CHOOSE st \in SettingsSet : st.monthlyNoteFolder = EmptyStr

\* The daily-notes core plugin: there or not, enabled or not, with or
\* without its options (instance?.options); an empty option is not set.
DailyOptions ==
    { [format |-> EmptyStr, folder |-> EmptyStr, template |-> EmptyStr],
      [format |-> <<"YYYY", Slash, "MM", "-", "DD">>, folder |-> <<"n">>,
       template |-> <<"t">>] }
NoDailyNotes ==
    [present |-> FALSE, enabled |-> FALSE, hasOptions |-> FALSE,
     options |-> [format |-> EmptyStr, folder |-> EmptyStr, template |-> EmptyStr]]
DailyNotesStates ==
    {NoDailyNotes}
        \cup {[NoDailyNotes EXCEPT !.present = TRUE, !.hasOptions = TRUE]}
        \cup {[NoDailyNotes EXCEPT !.present = TRUE, !.enabled = TRUE]}
        \cup {[present |-> TRUE, enabled |-> TRUE, hasOptions |-> TRUE, options |-> o] :
                 o \in DailyOptions}

\* Vaults for the calendar handlers: with and without the notes of
\* January 2024 already there.
NavNoteVaults ==
    { {},
      {FolderEntry(<<"n">>), FolderEntry(<<"2024">>),
       FileEntry(<<"n", Slash, "2024", "-", "01">> \o MdExt, "user"),
       FileEntry(<<"2024", Slash, "01">> \o MdExt, "user")} }
NavHostStates ==
    {[vault |-> h.vault \cup n, plugins |-> h.plugins] :
        h \in HostStates, n \in NavNoteVaults}

\* The text of the label's .oz-calendar-month-year span; NoSpan: no such span.
NoSpan == <<"<no span>">>
LabelTexts ==
    {<<MonthsShort[m], "2024">> : m \in 1..12}
        \cup {<<"January", "2024">>, <<"foo">>, EmptyStr, NoSpan}

\* Where the event's target is: inside the navigation label, inside the
\* quarter indicator, inside the month-year element.
Targets == [inLabel : BOOLEAN, inQuarter : BOOLEAN, inMonthYear : BOOLEAN]

\* The calendar's month view: a column of week-number tiles and, row after
\* row, seven day tiles per week.  A day tile has an abbr[aria-label] element
\* or none; the label is the day's date as 'MMMM D, YYYY'.
Tile(label) == [abbr |-> TRUE, label |-> label]
NoAbbrTile == [abbr |-> FALSE, label |-> EmptyStr]
DayFormat == <<"MMMM", "D", ",", "YYYY">>
BadTiles == {NoAbbrTile, Tile(<<"foo">>), Tile(EmptyStr)}
MonthTiles == [i \in 1..(7 * MaxWeeks) |-> Tile(<<"January", DayWords[i], ",", "2024">>)]
LastRow == 7 * (MaxWeeks - 1) + 1
Calendars ==
    {MonthTiles, SubSeq(MonthTiles, 1, LastRow - 1)}
        \cup {[MonthTiles EXCEPT ![k] = bad] : k \in {1, LastRow}, bad \in BadTiles}
WeekIndices == (0 - 1)..(MaxWeeks - 1)
DayTiles == {MonthTiles[LastRow]} \cup BadTiles

\* The text of a month label of the calendar.
MonthLabelTexts ==
    {<<"1", "Jan", "2024">>, <<"01", "Feb", "2024">>, <<"Mar", "2024">>,
     <<"foo">>, EmptyStr}

\* The titles of the context menu's items.
CreateNoteItem == "Create a note for this date"
DailyNoteItem == "Create daily note for this date"

NoEvent == [kind |-> "none", target |-> [inLabel |-> FALSE, inQuarter |-> FALSE,
                                         inMonthYear |-> FALSE],
            span |-> NoSpan, stopPropagation |-> FALSE, preventDefault |-> FALSE,
            handlers |-> <<>>, date |-> InvalidDate,
            weekIndex |-> 0 - 1, dayTiles |-> <<>>, tile |-> NoAbbrTile, menu |-> <<>>]

\* ------------------------------------------------- noteCreation.ts, helpers

\* openOrCreateNote: const filePath = folder ? `${folder}/${fileName}.md` : `${fileName}.md`
FilePathOf(cfg) ==
    IF cfg.folder # EmptyStr
    THEN cfg.folder \o <<Slash>> \o cfg.fileName \o MdExt
    ELSE cfg.fileName \o MdExt

\* Mutant of FullDirOf: indexOf in place of lastIndexOf.
FullDirOf_FirstSlash(fp) ==
    LET hits == {i \in 1..Len(fp) : fp[i] = Slash}
    IN  IF hits = {} THEN EmptyStr
        ELSE SubSeq(fp, 1, (CHOOSE i \in hits : \A j \in hits : i <= j) - 1)

\* openOrCreateNote: const fullDir = filePath.substring(0, filePath.lastIndexOf('/'))
FullDirOf(fp) == Substring(fp, 0, LastIndexOf(fp, Slash))

\* Mutant of JustFileName: the whole fileName is passed on.
JustFileName_WholeName(fileName) == fileName

\* createNoteWithTemplate: fileName.substring(fileName.lastIndexOf('/') + 1)
JustFileName(fileName) == SubstringFrom(fileName, LastIndexOf(fileName, Slash) + 1)

\* Mutant of OpenExistingNoteResult: `return true` is missing.
OpenExistingNoteResult_NeverTrue(found) == FALSE

\* openExistingNote's result: true iff existingFile is not null.
OpenExistingNoteResult(found) == Truthy(found)

\* getTemplaterPlugin: the plugin object, or null ("absent").
GetTemplaterPlugin(pl) == pl

\* templaterPlugin?.templater
HasTemplater(tp) == tp = "ready"

\* Mutant of GetTemplateFile: no `instanceof TFile` test.
GetTemplateFile_NoTFileTest(v, templatePath) ==
    IF templatePath = EmptyStr THEN {}
    ELSE GetAbstractFileByPath(v, templatePath \o MdExt)

\* getTemplateFile: null ({}) for an empty templatePath or when the entry at
\* `${templatePath}.md` is no TFile.
GetTemplateFile(v, templatePath) ==
    IF templatePath = EmptyStr THEN {}
    ELSE LET file == GetAbstractFileByPath(v, templatePath \o MdExt)
         IN  IF IsTFile(file) THEN file ELSE {}

\* The host calls getTemplateFile makes.
GetTemplateFileCalls(templatePath) ==
    IF templatePath = EmptyStr THEN <<>>
    ELSE <<Call("getTemplateFile", "getAbstractFileByPath", templatePath \o MdExt, FALSE)>>

\* createNoteWithTemplate: if (templateFile && templaterPlugin?.templater)
UseTemplater(tf, tp) == Truthy(tf) /\ HasTemplater(tp)

\* Mutant of NextCurrentPath: the parent's path is dropped.
NextCurrentPath_PartOnly(cur, part) == part

\* ensureFoldersExist: currentPath = currentPath ? `${currentPath}/${part}` : part
NextCurrentPath(cur, part) ==
    IF cur # EmptyStr THEN cur \o <<Slash>> \o part ELSE part

\* The path create_new_note_from_template(templateFile, fullDir, justFileName, true)
\* creates its note at: justFileName.md in folder fullDir.
TemplaterTarget(dir, name) ==
    IF dir = EmptyStr THEN name \o MdExt ELSE dir \o <<Slash>> \o name \o MdExt

\* Mutant of CreationCall: Templater is told not to open the note.
CreationCall_NoOpenFlag(p) ==
    IF UseTemplater(templateFile[p], templaterPlugin[p])
    THEN Call("createNoteWithTemplate", "create_new_note_from_template",
              TemplaterTarget(fullDir[p], JustFileName(config[p].fileName)), FALSE)
    ELSE Call("createNoteWithTemplate", "create", filePath[p], FALSE)

\* The call createNoteWithTemplate creates the note with.
CreationCall(p) ==
    IF UseTemplater(templateFile[p], templaterPlugin[p])
    THEN Call("createNoteWithTemplate", "create_new_note_from_template",
              TemplaterTarget(fullDir[p], JustFileName(config[p].fileName)), TRUE)
    ELSE Call("createNoteWithTemplate", "create", filePath[p], FALSE)

\* Mutant of DelayElapsed: the timer is not waited for.
DelayElapsed_NoWait(t) == t >= 0

\* setTimeout(resolve, 300): the timer is over when no time is left on it.
DelayElapsed(t) == t = 0

\* -------------------------------------------------------------------- Init

NoneYet == "unset"

\* The state before any handler has run, the settings apart, for the host
\* configurations hosts.
InitHost(hosts) ==
    /\ \E h \in hosts : vault = h.vault /\ plugins = h.plugins
    /\ vault0 = vault
    /\ turn = 0
    /\ pc = [p \in Procs |-> "idle"]
    /\ config = [p \in Procs |-> NoneYet]
    /\ filePath = [p \in Procs |-> EmptyStr]
    /\ existingFile = [p \in Procs |-> {}]
    /\ templaterPlugin = [p \in Procs |-> NoneYet]
    /\ templateFile = [p \in Procs |-> {}]
    /\ fullDir = [p \in Procs |-> EmptyStr]
    /\ parts = [p \in Procs |-> <<>>]
    /\ idx = [p \in Procs |-> 0]
    /\ currentPath = [p \in Procs |-> EmptyStr]
    /\ timer = [p \in Procs |-> -1]
    /\ calls = [p \in Procs |-> <<>>]
    /\ event = [p \in Procs |-> NoEvent]
    /\ rejected = [p \in Procs |-> {}]

Init == InitHost(HostStates) /\ settings = DefaultSettings /\ dailyNotes = NoDailyNotes

\* ---------------------------------------------- noteCreation.ts, the steps

Goto(p, label) == pc' = [pc EXCEPT ![p] = label]
Log(p, cs) == calls' = [calls EXCEPT ![p] = @ \o cs]

\* Invocations are numbered in the order they start.
MayStart(p) ==
    /\ pc[p] = "idle"
    /\ turn = 0
    /\ \A q \in Procs : q < p => pc[q] # "idle"

\* openOrCreateNote up to `if (await openExistingNote(deps, filePath)) return`,
\* with openExistingNote up to its await of openLinkText.
EnterOpenOrCreateNote(p, cfg) ==
    LET fp    == FilePathOf(cfg)
        found == GetAbstractFileByPath(vault, fp)
        check == Call("openExistingNote", "getAbstractFileByPath", fp, FALSE)
    IN  /\ config' = [config EXCEPT ![p] = cfg]
        /\ filePath' = [filePath EXCEPT ![p] = fp]
        /\ existingFile' = [existingFile EXCEPT ![p] = found]
        /\ IF OpenExistingNoteResult(found)
           THEN /\ Log(p, <<check, Call("openExistingNote", "openLinkText", fp, TRUE)>>)
                /\ Goto(p, "awaitOpenExisting")
                /\ turn' = 0
           ELSE /\ Log(p, <<check>>)
                /\ Goto(p, "lookup")
                /\ turn' = p
        /\ UNCHANGED <<templaterPlugin, templateFile, fullDir, parts, idx,
                       currentPath, timer>>

\* A direct call of the exported openOrCreateNote(deps, config).
OpenOrCreateNote(p, cfg) ==
    /\ MayStart(p)
    /\ EnterOpenOrCreateNote(p, cfg)
    /\ UNCHANGED <<hostVars, event>>

\* The host settles openLinkText of the existing note; openExistingNote
\* returns true and openOrCreateNote returns.
OpenExistingDone(p) ==
    /\ pc[p] = "awaitOpenExisting"
    /\ turn = 0
    /\ Goto(p, "done")
    /\ UNCHANGED <<hostVars, turn, locals, timer, calls, event>>

\* openOrCreateNote: getTemplaterPlugin, getTemplateFile, fullDir, and the
\* entry of ensureFoldersExist (`if (!fullDir) return`, split).
Lookup(p) ==
    /\ pc[p] = "lookup"
    /\ turn = p
    /\ templaterPlugin' = [templaterPlugin EXCEPT ![p] = GetTemplaterPlugin(plugins)]
    /\ templateFile' =
           [templateFile EXCEPT ![p] = GetTemplateFile(vault, config[p].templatePath)]
    /\ Log(p, <<Call("getTemplaterPlugin", "plugins", EmptyStr, FALSE)>>
              \o GetTemplateFileCalls(config[p].templatePath))
    /\ LET dir == FullDirOf(filePath[p])
       IN  /\ fullDir' = [fullDir EXCEPT ![p] = dir]
           /\ IF dir = EmptyStr
              THEN /\ Goto(p, "createNote")
                   /\ UNCHANGED parts
              ELSE /\ Goto(p, "ensureFolders")
                   /\ parts' = [parts EXCEPT ![p] = Split(dir, Slash)]
    /\ UNCHANGED <<hostVars, turn, config, filePath, existingFile, idx,
                   currentPath, timer, event>>

\* One turn of ensureFoldersExist's for loop, up to its await of createFolder;
\* after the last part the function returns.
EnsureFoldersExist(p) ==
    /\ pc[p] = "ensureFolders"
    /\ turn = p
    /\ IF idx[p] >= Len(parts[p])
       THEN /\ Goto(p, "createNote")
            /\ UNCHANGED <<idx, currentPath, calls, turn>>
       ELSE LET cur == NextCurrentPath(currentPath[p], parts[p][idx[p] + 1])
                folderExists == GetAbstractFileByPath(vault, cur)
                check == Call("ensureFoldersExist", "getAbstractFileByPath", cur, FALSE)
            IN  /\ currentPath' = [currentPath EXCEPT ![p] = cur]
                /\ idx' = [idx EXCEPT ![p] = @ + 1]
                /\ IF ~Truthy(folderExists)
                   THEN /\ Log(p, <<check,
                                    Call("ensureFoldersExist", "createFolder", cur, FALSE)>>)
                        /\ Goto(p, "awaitCreateFolder")
                        /\ turn' = 0
                   ELSE /\ Log(p, <<check>>)
                        /\ UNCHANGED <<pc, turn>>
    /\ UNCHANGED <<hostVars, config, filePath, existingFile, templaterPlugin,
                   templateFile, fullDir, parts, timer, event>>

\* How the host may settle vault.createFolder(path), TRUE for resolved: the
\* folder is made when nothing is at the path; when the folder came to be
\* while the call was in flight the host may reject or find nothing left to
\* do; a file at the path makes it reject.
CreateFolderOutcomes(v, path) ==
    IF ~Truthy(GetAbstractFileByPath(v, path)) THEN {TRUE}
    ELSE IF FolderEntry(path) \in v THEN BOOLEAN
    ELSE {FALSE}

\* Mutant of CreateFolderDone: a rejection is swallowed and the loop goes on.
CreateFolderDone_Swallowed(p) ==
    /\ pc[p] = "awaitCreateFolder"
    /\ turn = 0
    /\ \E resolved \in CreateFolderOutcomes(vault, currentPath[p]) :
       IF resolved
       THEN /\ vault' = vault \cup {FolderEntry(currentPath[p])}
            /\ UNCHANGED rejected
       ELSE /\ rejected' = [rejected EXCEPT ![p] = @ \cup {Len(calls[p])}]
            /\ UNCHANGED vault
    /\ Goto(p, "ensureFolders")
    /\ turn' = p
    /\ UNCHANGED <<plugins, vault0, settings, dailyNotes, locals, timer, calls, event>>

\* The host settles vault.createFolder(currentPath).
CreateFolderDone(p) ==
    /\ pc[p] = "awaitCreateFolder"
    /\ turn = 0
    /\ \E resolved \in CreateFolderOutcomes(vault, currentPath[p]) :
       IF resolved
       THEN /\ vault' = vault \cup {FolderEntry(currentPath[p])}
            /\ Goto(p, "ensureFolders")
            /\ turn' = p
            /\ UNCHANGED rejected
       ELSE /\ Goto(p, "failed")
            /\ rejected' = [rejected EXCEPT ![p] = @ \cup {Len(calls[p])}]
            /\ UNCHANGED <<vault, turn>>
    /\ UNCHANGED <<plugins, vault0, settings, dailyNotes, locals, timer, calls, event>>

\* Mutant of CreateNoteWithTemplate: the note is opened before it is created.
CreateNoteWithTemplate_OpenFirst(p) ==
    /\ pc[p] = "createNote"
    /\ turn = p
    /\ Log(p, <<Call("createNoteWithTemplate", "openLinkText", filePath[p], TRUE),
                CreationCall(p)>>)
    /\ Goto(p, IF UseTemplater(templateFile[p], templaterPlugin[p])
               THEN "awaitTemplater" ELSE "awaitCreate")
    /\ turn' = 0
    /\ UNCHANGED <<hostVars, locals, timer, event>>

\* createNoteWithTemplate up to its first await: the Templater call or
\* vault.create(filePath, '').
CreateNoteWithTemplate(p) ==
    /\ pc[p] = "createNote"
    /\ turn = p
    /\ Log(p, <<CreationCall(p)>>)
    /\ Goto(p, IF UseTemplater(templateFile[p], templaterPlugin[p])
               THEN "awaitTemplater" ELSE "awaitCreate")
    /\ turn' = 0
    /\ UNCHANGED <<hostVars, locals, timer, event>>

\* The last host call invocation p made.
LastCall(p) == calls[p][Len(calls[p])]

\* The host settles the creation call: the note is in the vault (Templater
\* has also opened it), and the code starts its 300 ms timer.  The call
\* rejects when an entry is already at the path.
CreationDone(p) ==
    /\ pc[p] \in {"awaitTemplater", "awaitCreate"}
    /\ turn = 0
    /\ IF ~Truthy(GetAbstractFileByPath(vault, LastCall(p).path))
       THEN /\ vault' = vault \cup
                  {FileEntry(LastCall(p).path,
                             IF pc[p] = "awaitTemplater" THEN "templated" ELSE "empty")}
            /\ timer' = [timer EXCEPT ![p] = DelayMs]
            /\ Log(p, <<Call("createNoteWithTemplate", "setTimeout", EmptyStr, FALSE)>>)
            /\ Goto(p, IF pc[p] = "awaitTemplater" THEN "delayTemplater" ELSE "delayCreate")
            /\ UNCHANGED rejected
       ELSE /\ Goto(p, "failed")
            /\ rejected' = [rejected EXCEPT ![p] = @ \cup {Len(calls[p])}]
            /\ UNCHANGED <<vault, timer, calls>>
    /\ UNCHANGED <<plugins, vault0, settings, dailyNotes, turn, locals, event>>

\* Time passes on the host: every running timer loses TickMs.
Tick ==
    /\ turn = 0
    /\ \E p \in Procs : timer[p] > 0
    /\ timer' = [p \in Procs |-> IF timer[p] > 0 THEN Max2(timer[p] - TickMs, 0)
                                 ELSE timer[p]]
    /\ UNCHANGED <<hostVars, turn, pc, locals, calls, event>>

\* The timer fires.  After Templater the function returns; after
\* vault.create it asks the editor to open the note.
TimerFired(p) ==
    /\ pc[p] \in {"delayTemplater", "delayCreate"}
    /\ turn = 0
    /\ DelayElapsed(timer[p])
    /\ timer' = [timer EXCEPT ![p] = -1]
    /\ IF pc[p] = "delayTemplater"
       THEN /\ Goto(p, "done")
            /\ UNCHANGED calls
       ELSE /\ Log(p, <<Call("createNoteWithTemplate", "openLinkText", filePath[p], TRUE)>>)
            /\ Goto(p, "awaitOpenNew")
    /\ UNCHANGED <<hostVars, turn, locals, event>>

\* The host settles openLinkText of the new note; openOrCreateNote returns.
OpenNewDone(p) ==
    /\ pc[p] = "awaitOpenNew"
    /\ turn = 0
    /\ Goto(p, "done")
    /\ UNCHANGED <<hostVars, turn, locals, timer, calls, event>>

\* ------------------------------------------------- noteHandlers.ts, steps

\* Mutant of NavDispatch: the quarter branch falls through to the month click.
NavDispatch_FallsThrough(target) ==
    IF ~target.inLabel
    THEN [stop |-> FALSE, prevent |-> FALSE, handlers |-> <<>>]
    ELSE IF target.inQuarter
    THEN [stop |-> TRUE, prevent |-> TRUE,
          handlers |-> <<"handleQuarterClick", "handleMonthClick">>]
    ELSE [stop |-> TRUE, prevent |-> TRUE, handlers |-> <<"handleMonthClick">>]

\* handleMonthNavLabelClickCapture: what is done with an event whose target
\* is at `target`: stopPropagation, preventDefault, and the handlers called.
NavDispatch(target) ==
    IF ~target.inLabel
    THEN [stop |-> FALSE, prevent |-> FALSE, handlers |-> <<>>]
    ELSE IF target.inQuarter
    THEN [stop |-> TRUE, prevent |-> TRUE, handlers |-> <<"handleQuarterClick">>]
    ELSE IF target.inMonthYear
    THEN [stop |-> TRUE, prevent |-> TRUE, handlers |-> <<"handleMonthClick">>]
    ELSE [stop |-> TRUE, prevent |-> TRUE, handlers |-> <<"handleMonthClick">>]

\* handleMonthNavLabelClickCapture(ev), up to the call of the handler it
\* dispatches to.  span is the text of the label's month-year span.
HandleMonthNavLabelClickCapture(p, target, span) ==
    LET d == NavDispatch(target)
    IN  /\ MayStart(p)
        /\ event' = [event EXCEPT ![p] =
               [NoEvent EXCEPT !.kind = "mousedown", !.target = target, !.span = span,
                               !.stopPropagation = d.stop, !.preventDefault = d.prevent,
                               !.handlers = d.handlers]]
        /\ IF d.handlers = <<>>
           THEN Goto(p, "returned") /\ turn' = 0
           ELSE Goto(p, d.handlers[1]) /\ turn' = p
        /\ UNCHANGED <<hostVars, locals, timer, calls>>

\* A handler returns without calling openOrCreateNote.
Return(p) ==
    /\ Goto(p, "returned")
    /\ turn' = 0
    /\ UNCHANGED <<locals, timer, calls, event>>

\* `if (!labelText) return`: no span, or a span with no text.
NoLabelText(span) == span = NoSpan \/ span = EmptyStr

\* handleMonthClick(labelButton), up to the first await of openOrCreateNote.
HandleMonthClick(p) ==
    /\ pc[p] = "handleMonthClick"
    /\ turn = p
    /\ LET labelText == event[p].span
           monthDate == ParseDate(labelText, <<<<"MMM", "YYYY">>, <<"MMMM", "YYYY">>>>)
       IN  IF NoLabelText(labelText) \/ ~IsValid(monthDate)
           THEN Return(p)
           ELSE /\ event' = [event EXCEPT ![p].date = StartOfMonth(monthDate)]
                /\ EnterOpenOrCreateNote(p,
                       [fileName |-> Format(StartOfMonth(monthDate),
                                            settings.monthlyNoteFormat),
                        folder |-> settings.monthlyNoteFolder,
                        templatePath |-> settings.monthlyNoteTemplate])
    /\ UNCHANGED hostVars

\* Mutant of QuarterStartMonth: the quarter's index is not turned into a month.
QuarterStartMonth_QuarterIndex(m) == CeilDiv(m + 1, 3) - 1

\* handleQuarterClick: the first month of the quarter of month index m.
QuarterStartMonth(m) == (CeilDiv(m + 1, 3) - 1) * 3

\* handleQuarterClick(labelButton), up to the first await of openOrCreateNote.
HandleQuarterClick(p) ==
    /\ pc[p] = "handleQuarterClick"
    /\ turn = p
    /\ LET labelText == event[p].span
           monthDate == ParseDate(labelText, <<<<"MMM", "YYYY">>, <<"MMMM", "YYYY">>>>)
           quarterDate == StartOfMonth(SetMonth(monthDate, QuarterStartMonth(monthDate.month)))
       IN  IF NoLabelText(labelText) \/ ~IsValid(monthDate)
           THEN Return(p)
           ELSE /\ event' = [event EXCEPT ![p].date = quarterDate]
                /\ EnterOpenOrCreateNote(p,
                       [fileName |-> Format(quarterDate, settings.quarterlyNoteFormat),
                        folder |-> settings.quarterlyNoteFolder,
                        templatePath |-> settings.quarterlyNoteTemplate])
    /\ UNCHANGED hostVars

\* A handler returns at once, without calling openOrCreateNote.
ReturnAtOnce(p) ==
    /\ Goto(p, "returned")
    /\ turn' = 0
    /\ UNCHANGED <<locals, timer, calls>>

\* Mutant of FirstDayOfWeekIndex: the week's index taken for the day's index.
FirstDayOfWeekIndex_WeekIndex(weekIndex) == weekIndex

\* handleWeekNumberClick: `dayTiles[weekIndex * 7]`, the index counted from 0.
FirstDayOfWeekIndex(weekIndex) == weekIndex * 7

\* handleWeekNumberClick(ev, delegateTarget), up to the first await of
\* openOrCreateNote.  weekIndex is the place of delegateTarget among the
\* week-number tiles, -1 if it is none of them.
HandleWeekNumberClick(p, weekIndex, dayTiles) ==
    LET i        == FirstDayOfWeekIndex(weekIndex) + 1
        hasTile  == weekIndex # 0 - 1 /\ i \in DOMAIN dayTiles
        hasAbbr  == hasTile /\ dayTiles[i].abbr
        weekDate == IF hasAbbr THEN Dayjs(dayTiles[i].label, DayFormat) ELSE InvalidDate
    IN  /\ MayStart(p)
        /\ event' = [event EXCEPT ![p] =
               [NoEvent EXCEPT !.kind = "weekclick", !.weekIndex = weekIndex,
                               !.dayTiles = dayTiles, !.date = weekDate]]
        /\ IF ~hasAbbr \/ ~IsValid(weekDate)
           THEN ReturnAtOnce(p)
           ELSE EnterOpenOrCreateNote(p,
                    [fileName |-> Format(weekDate, settings.weeklyNoteFormat),
                     folder |-> settings.weeklyNoteFolder,
                     templatePath |-> settings.weeklyNoteTemplate])
        /\ UNCHANGED hostVars

\* handleMonthLabelClick(ev, delegateTarget), up to the first await of
\* openOrCreateNote.
HandleMonthLabelClick(p, labelText) ==
    LET monthDate == ParseDate(labelText, <<<<"D", "MMM", "YYYY">>,
                                            <<"DD", "MMM", "YYYY">>, <<"MMM", "YYYY">>>>)
        called    == labelText # EmptyStr /\ IsValid(monthDate)
    IN  /\ MayStart(p)
        /\ event' = [event EXCEPT ![p] =
               [NoEvent EXCEPT !.kind = "click", !.span = labelText,
                               !.stopPropagation = TRUE, !.preventDefault = TRUE,
                               !.date = IF called THEN StartOfMonth(monthDate)
                                        ELSE InvalidDate]]
        /\ IF ~called
           THEN ReturnAtOnce(p)
           ELSE EnterOpenOrCreateNote(p,
                    [fileName |-> Format(StartOfMonth(monthDate),
                                         settings.monthlyNoteFormat),
                     folder |-> settings.monthlyNoteFolder,
                     templatePath |-> settings.monthlyNoteTemplate])
        /\ UNCHANGED hostVars

\* handleMonthDayContextMenu: the items of the menu; the daily-note item only
\* `if (dailyNotesPlugin?.enabled && templaterPlugin?.templater)`.
MenuItems(dn, tp) ==
    IF dn.present /\ dn.enabled /\ HasTemplater(tp)
    THEN <<CreateNoteItem, DailyNoteItem>>
    ELSE <<CreateNoteItem>>

\* handleMonthDayContextMenu(ev, delegateTarget): the menu is built and shown
\* for the date of the day tile's label, parsed with no test of the result.
HandleMonthDayContextMenu(p, tile) ==
    /\ MayStart(p)
    /\ IF ~tile.abbr \/ tile.label = EmptyStr
       THEN /\ event' = [event EXCEPT ![p] =
                   [NoEvent EXCEPT !.kind = "contextmenu", !.tile = tile]]
            /\ Goto(p, "returned")
       ELSE /\ event' = [event EXCEPT ![p] =
                   [NoEvent EXCEPT !.kind = "contextmenu", !.tile = tile,
                                   !.date = Dayjs(tile.label, DayFormat),
                                   !.menu = MenuItems(dailyNotes,
                                                      GetTemplaterPlugin(plugins))]]
            /\ Goto(p, "menu")
    /\ UNCHANGED <<hostVars, turn, locals, timer, calls>>

\* The user picks 'Create a note for this date': the modal opens for the date.
CreateNoteItemClick(p) ==
    /\ pc[p] = "menu"
    /\ turn = 0
    /\ Goto(p, "modal")
    /\ UNCHANGED <<hostVars, turn, locals, timer, calls, event>>

\* dayjsDate.format(options.format || 'YYYY-MM-DD') and the other options of
\* the daily note, an empty option replaced by its default.
DailyNoteConfig(dayjsDate, options) ==
    [fileName |-> Format(dayjsDate, IF options.format # EmptyStr THEN options.format
                                    ELSE <<"YYYY", "-", "MM", "-", "DD">>),
     folder |-> options.folder,
     templatePath |-> options.template]

\* The user picks 'Create daily note for this date': the item's onClick, up
\* to the first await of openOrCreateNote.
DailyNoteItemClick(p) ==
    /\ pc[p] = "menu"
    /\ turn = 0
    /\ \E i \in DOMAIN event[p].menu : event[p].menu[i] = DailyNoteItem
    /\ IF ~dailyNotes.hasOptions
       THEN ReturnAtOnce(p)
       ELSE EnterOpenOrCreateNote(p, DailyNoteConfig(event[p].date, dailyNotes.options))
    /\ UNCHANGED <<hostVars, event>>

\* The steps of an invocation after its entry.
Step(p) ==
    \/ Lookup(p)
    \/ EnsureFoldersExist(p)
    \/ CreateNoteWithTemplate(p)
    \/ TimerFired(p)
    \/ OpenExistingDone(p)
    \/ CreateFolderDone(p)
    \/ CreationDone(p)
    \/ OpenNewDone(p)

Next ==
    \/ \E p \in Procs, cfg \in Configs : OpenOrCreateNote(p, cfg)
    \/ \E p \in Procs : Step(p)
    \/ Tick

Spec == Init /\ [][Next]_vars

\* The calendar's handlers: one event at a time, handled to the end of the
\* openOrCreateNote call it leads to.
InitNav ==
    /\ InitHost(NavHostStates)
    /\ settings \in SettingsSet
    /\ dailyNotes \in DailyNotesStates

NextNav ==
    \/ \E target \in Targets, span \in LabelTexts :
           HandleMonthNavLabelClickCapture(1, target, span)
    \/ HandleMonthClick(1)
    \/ HandleQuarterClick(1)
    \/ \E weekIndex \in WeekIndices, dayTiles \in Calendars :
           HandleWeekNumberClick(1, weekIndex, dayTiles)
    \/ \E labelText \in MonthLabelTexts : HandleMonthLabelClick(1, labelText)
    \/ \E tile \in DayTiles : HandleMonthDayContextMenu(1, tile)
    \/ CreateNoteItemClick(1)
    \/ DailyNoteItemClick(1)
    \/ Step(1)
    \/ Tick

SpecNav == InitNav /\ [][NextNav]_vars

\* ------------------------------------------------------------------ claims

CreationOps == {"create", "create_new_note_from_template"}
VaultWriteOps == CreationOps \cup {"createFolder"}

\* openOrCreateNote has been entered by invocation p.
Started(p) ==
    pc[p] \notin {"idle", "handleMonthClick", "handleQuarterClick", "returned",
                  "menu", "modal"}

\* The indices of invocation p's calls that satisfy Test.
CallsWhere(p, Test(_)) == {i \in DOMAIN calls[p] : Test(calls[p][i])}

IsCreation(c) == c.op \in CreationOps
IsCreateFolder(c) == c.op = "createFolder"
IsOpenRequest(c) == c.open
IsOpenLinkText(c) == c.op = "openLinkText"
IsSetTimeout(c) == c.op = "setTimeout"
IsTemplaterCall(c) == c.op = "create_new_note_from_template"
IsVaultCreate(c) == c.op = "create"

\* The path the configuration names: folder/fileName.md, or fileName.md for
\* an empty folder.
ResolvedPath(cfg) ==
    IF cfg.folder = EmptyStr THEN cfg.fileName \o MdExt
    ELSE cfg.folder \o <<Slash>> \o cfg.fileName \o MdExt

\* The invocation found no note at its path and went on to create one.
Creates(p) == Started(p) /\ ~Truthy(existingFile[p])
\* The invocation found the note at its path.
FoundExisting(p) == Started(p) /\ Truthy(existingFile[p])

\* All creation calls made so far, as <<invocation, index>> pairs, for a path.
CreationCallsFor(path) ==
    {pi \in Procs \X (1..20) :
        /\ pi[2] \in DOMAIN calls[pi[1]]
        /\ IsCreation(calls[pi[1]][pi[2]])
        /\ calls[pi[1]][pi[2]].path = path}

\* C1: at most one file-creation call (vault.create or Templater's
\* create_new_note_from_template) is ever issued for one path, over all
\* invocations of openOrCreateNote and all their interleavings.
C1_AtMostOneCreationCallPerPath ==
    \A p \in Procs : \A i \in DOMAIN calls[p] :
        IsCreation(calls[p][i]) =>
            Cardinality(CreationCallsFor(calls[p][i].path)) <= 1

\* C2: an invocation that finds a file at its path only opens it: its host
\* calls are the existence check and one openLinkText of that path, with no
\* createFolder, no vault.create, no Templater call and no plugin or template
\* lookup, and every entry the vault has gained was created by a call of
\* another invocation.
C2_ExistingNoteOnlyOpened ==
    \A p \in Procs :
        FoundExisting(p) =>
            /\ pc[p] \in {"awaitOpenExisting", "done"}
            /\ calls[p] = << Call("openExistingNote", "getAbstractFileByPath",
                                  ResolvedPath(config[p]), FALSE),
                             Call("openExistingNote", "openLinkText",
                                  ResolvedPath(config[p]), TRUE) >>
            /\ \A e \in vault \ vault0 :
                   \E q \in Procs \ {p} : \E i \in DOMAIN calls[q] :
                       calls[q][i].op \in VaultWriteOps /\ calls[q][i].path = e.path

C2_Witness ==
    \E p \in Procs : FoundExisting(p) /\ pc[p] = "done" /\ vault # vault0

\* C3: an invocation that found no file at its path and completed without a
\* failing host call has issued exactly one file-creation call, for the
\* resolved path, and a file is at the resolved path.
C3_CreatesExactlyAtResolvedPath ==
    \A p \in Procs :
        (Creates(p) /\ pc[p] = "done") =>
            /\ Cardinality(CallsWhere(p, IsCreation)) = 1
            /\ \A i \in CallsWhere(p, IsCreation) :
                   calls[p][i].path = ResolvedPath(config[p])
            /\ \E e \in vault : e.path = ResolvedPath(config[p]) /\ e.kind = "file"

C3_Witness ==
    \E p \in Procs :
        /\ Creates(p) /\ pc[p] = "done"
        /\ CallsWhere(p, IsTemplaterCall) # {}
        /\ config[p].folder # EmptyStr
        /\ Slash \in {config[p].fileName[i] : i \in DOMAIN config[p].fileName}

\* The place of a host call in the fixed order of openOrCreateNote.
Stage(c) ==
    CASE c.by = "openExistingNote"   -> 1
      [] c.by = "getTemplaterPlugin" -> 2
      [] c.by = "getTemplateFile"    -> 3
      [] c.by = "ensureFoldersExist" -> 4
      [] IsCreation(c)               -> 5
      [] IsSetTimeout(c)             -> 6
      [] OTHER                       -> 7

\* C4: in an invocation that creates a note the host calls come in the order
\* existence check, Templater plugin lookup, template lookup, folder
\* creation, file creation (or template instantiation), open in editor: every
\* createFolder call precedes the creation call, and no request to open the
\* note precedes it.
C4_FixedOrderOfHostCalls ==
    \A p \in Procs :
        Creates(p) =>
            /\ \A i, j \in DOMAIN calls[p] :
                   i < j => Stage(calls[p][i]) <= Stage(calls[p][j])
            /\ \A i \in CallsWhere(p, IsCreation) :
                   /\ \A j \in CallsWhere(p, IsCreateFolder) : j < i
                   /\ \A j \in CallsWhere(p, IsOpenRequest) : i <= j
                   /\ \A j \in CallsWhere(p, IsOpenLinkText) : i < j
            /\ (CallsWhere(p, IsOpenRequest) # {} => CallsWhere(p, IsCreation) # {})

C4_Witness ==
    \E p \in Procs :
        /\ Creates(p) /\ pc[p] = "done"
        /\ Cardinality(CallsWhere(p, IsCreateFolder)) = 2
        /\ CallsWhere(p, IsOpenLinkText) # {}
        /\ \E i \in DOMAIN calls[p] : calls[p][i].by = "getTemplateFile"

\* The open requests createNoteWithTemplate makes.
IsOpenOfNewNote(c) == c.open /\ c.by = "createNoteWithTemplate"

DelayStates == {"delayTemplater", "delayCreate"}

\* C5 as claimed: in both branches of createNoteWithTemplate the delay lies
\* between the creation of the file and the request to open it: every
\* request to open a new note comes after a setTimeout that comes after the
\* creation call.
C5_DelayBeforeOpenInBothBranches ==
    \A p \in Procs : \A i \in CallsWhere(p, IsOpenOfNewNote) :
        \E j \in CallsWhere(p, IsSetTimeout) :
            /\ j < i
            /\ \E k \in CallsWhere(p, IsCreation) : k < j

\* What the log of invocation p must look like for C5 as amended.
C5_LogOrder(p) ==
    /\ \A i \in CallsWhere(p, IsOpenLinkText) :
           calls[p][i].by = "createNoteWithTemplate" =>
               \E j \in CallsWhere(p, IsSetTimeout) :
                   /\ j < i
                   /\ \E k \in CallsWhere(p, IsVaultCreate) : k < j
    /\ \A i \in CallsWhere(p, IsTemplaterCall) :
           /\ calls[p][i].open
           /\ \A j \in CallsWhere(p, IsOpenLinkText) : FALSE
           /\ \A j \in CallsWhere(p, IsSetTimeout) : i < j
           /\ (pc[p] = "done" => CallsWhere(p, IsSetTimeout) # {})

\* C5 as amended: in the empty-file branch the timer is set to 300 ms when
\* vault.create has settled and openLinkText is called only when the whole
\* 300 ms have elapsed; in the Templater branch the request to open the note
\* is the create_new_note_from_template call itself (open flag true), and the
\* 300 ms delay follows that call, before the function returns.
C5_DelayStep ==
    [][ \A p \in Procs :
           /\ C5_LogOrder(p)'
           /\ (pc[p] \notin DelayStates /\ pc'[p] \in DelayStates) => timer'[p] = DelayMs
           /\ (pc[p] \in DelayStates /\ pc'[p] \notin DelayStates) => timer[p] = 0
      ]_vars

C5_Witness ==
    \E p, q \in Procs :
        /\ pc[p] = "done" /\ CallsWhere(p, IsVaultCreate) # {}
        /\ pc[q] = "done" /\ CallsWhere(q, IsTemplaterCall) # {}

\* openOrCreateNote has computed fullDir.
PastLookup(p) == Started(p) /\ templaterPlugin[p] # NoneYet

HasSlash(s) == \E i \in DOMAIN s : s[i] = Slash

\* C6: filePath is folder + '/' + fileName + '.md' for a non-empty folder and
\* fileName + '.md' for an empty one; fullDir is filePath up to but excluding
\* its last '/', and empty when filePath holds no '/'.
C6_PathResolution ==
    \A p \in Procs :
        /\ Started(p) =>
               filePath[p] = IF config[p].folder # EmptyStr
                             THEN config[p].folder \o <<Slash>> \o config[p].fileName \o MdExt
                             ELSE config[p].fileName \o MdExt
        /\ PastLookup(p) =>
               IF HasSlash(filePath[p])
               THEN \E k \in DOMAIN filePath[p] :
                        /\ filePath[p][k] = Slash
                        /\ \A j \in DOMAIN filePath[p] : j > k => filePath[p][j] # Slash
                        /\ fullDir[p] = SubSeq(filePath[p], 1, k - 1)
               ELSE fullDir[p] = EmptyStr

C6_Witness ==
    \E p, q \in Procs :
        /\ PastLookup(p) /\ config[p].folder # EmptyStr /\ HasSlash(config[p].fileName)
        /\ PastLookup(q) /\ ~HasSlash(filePath[q])

\* C7: an invocation that completes without a host error has made exactly
\* one request to open the note: openLinkText in the existing-note branch,
\* openLinkText in the empty-file branch, and in the Templater branch the one
\* create_new_note_from_template call with its open flag true and no
\* openLinkText.
C7_ExactlyOneOpenRequest ==
    \A p \in Procs :
        pc[p] = "done" =>
            /\ Cardinality(CallsWhere(p, IsOpenRequest)) = 1
            /\ \A i \in CallsWhere(p, IsOpenRequest) :
                   IF FoundExisting(p)
                   THEN calls[p][i].op = "openLinkText" /\ calls[p][i].by = "openExistingNote"
                   ELSE IF CallsWhere(p, IsTemplaterCall) # {}
                   THEN IsTemplaterCall(calls[p][i]) /\ CallsWhere(p, IsOpenLinkText) = {}
                   ELSE calls[p][i].op = "openLinkText"
                        /\ calls[p][i].by = "createNoteWithTemplate"
            /\ Cardinality(CallsWhere(p, IsTemplaterCall)) <= 1

C7_Witness ==
    \E p, q \in Procs :
        /\ pc[p] = "done" /\ CallsWhere(p, IsTemplaterCall) # {}
        /\ pc[q] = "done" /\ FoundExisting(q)

\* C8: a note is created through Templater iff templatePath is non-empty,
\* the vault holds a file (not a folder) at templatePath + '.md' and the
\* 'templater-obsidian' plugin is there with a templater object; otherwise it
\* is created by vault.create(filePath, '') with empty content and Templater
\* is not called.
C8_TemplaterIffTemplateAndPlugin ==
    \A p \in Procs : \A i \in CallsWhere(p, IsCreation) :
        LET tp == config[p].templatePath
            wanted == /\ tp # EmptyStr
                      /\ \E e \in vault : e.path = tp \o MdExt /\ e.kind = "file"
                      /\ plugins = "ready"
        IN  /\ IsTemplaterCall(calls[p][i]) <=> wanted
            /\ ~wanted =>
                   /\ calls[p][i].op = "create"
                   /\ calls[p][i].path = filePath[p]
                   /\ CallsWhere(p, IsTemplaterCall) = {}
                   /\ pc[p] \in {"delayCreate", "awaitOpenNew", "done"} =>
                          \E e \in vault : /\ e.path = filePath[p]
                                           /\ e.kind = "file"
                                           /\ e.data = "empty"

C8_Witness ==
    \E p \in Procs :
        /\ pc[p] = "done"
        /\ CallsWhere(p, IsTemplaterCall) # {}
        /\ \E e \in vault : e.path = filePath[p] /\ e.data = "templated"

\* ensureFoldersExist has returned in invocation p.
FoldersDone(p) ==
    /\ Creates(p)
    /\ pc[p] \in {"createNote", "awaitTemplater", "awaitCreate", "delayTemplater",
                  "delayCreate", "awaitOpenNew", "done"}

\* No other invocation has asked the vault to create anything.
NoOtherWriter(p) ==
    \A q \in Procs \ {p} : \A i \in DOMAIN calls[q] : calls[q][i].op \notin VaultWriteOps

\* The '/'-prefixes of dir, as the set of their lengths.
PrefixEnds(dir) ==
    {k \in 1..Len(dir) : dir[k] # Slash /\ (k = Len(dir) \/ dir[k + 1] = Slash)}

IsByEnsureFolders(c) == c.by = "ensureFoldersExist"

\* C9: with no concurrent vault changes, ensureFoldersExist(vault, fullDir)
\* calls createFolder on exactly the '/'-prefixes of fullDir that are not in
\* the vault, from the shortest to the longest, so that on return every
\* prefix exists; for an empty fullDir it makes no vault call.
C9_EnsureFoldersCreatesMissingPrefixes ==
    \A p \in Procs :
        (FoldersDone(p) /\ NoOtherWriter(p)) =>
            LET dir == fullDir[p]
                made == CallsWhere(p, IsCreateFolder)
            IN  /\ dir = EmptyStr => CallsWhere(p, IsByEnsureFolders) = {}
                /\ \A k \in PrefixEnds(dir) :
                       /\ \E e \in vault : e.path = SubSeq(dir, 1, k)
                       /\ (\E i \in made : calls[p][i].path = SubSeq(dir, 1, k))
                              <=> ~(\E e \in vault0 : e.path = SubSeq(dir, 1, k))
                /\ \A i \in made :
                       \E k \in PrefixEnds(dir) : calls[p][i].path = SubSeq(dir, 1, k)
                /\ \A i, j \in made :
                       i < j => Len(calls[p][i].path) < Len(calls[p][j].path)

C9_Witness ==
    \E p \in Procs :
        /\ FoldersDone(p) /\ NoOtherWriter(p)
        /\ pc[p] = "done"
        /\ Cardinality(CallsWhere(p, IsCreateFolder)) = 2

\* C10: handleMonthNavLabelClickCapture dispatches an event to one handler or
\* none: with the target outside the navigation label it calls no handler and
\* neither stops propagation nor prevents the default; with the target inside
\* the label it stops propagation, prevents the default and calls
\* handleQuarterClick when the target is inside the quarter indicator and
\* handleMonthClick otherwise; never both.
C10_NavLabelDispatch ==
    \A p \in Procs :
        event[p].kind = "mousedown" =>
            LET t == event[p].target
            IN  /\ Len(event[p].handlers) <= 1
                /\ ~t.inLabel =>
                       /\ event[p].handlers = <<>>
                       /\ ~event[p].stopPropagation /\ ~event[p].preventDefault
                       /\ pc[p] = "returned" /\ calls[p] = <<>>
                /\ t.inLabel =>
                       /\ event[p].stopPropagation /\ event[p].preventDefault
                       /\ event[p].handlers =
                              IF t.inQuarter THEN <<"handleQuarterClick">>
                              ELSE <<"handleMonthClick">>
                       /\ pc[p] # "handleMonthClick" \/ ~t.inQuarter
                       /\ pc[p] # "handleQuarterClick" \/ t.inQuarter
                       /\ Started(p) =>
                              config[p].folder =
                                  IF t.inQuarter THEN settings.quarterlyNoteFolder
                                  ELSE settings.monthlyNoteFolder

C10_Witness ==
    \E p \in Procs :
        /\ event[p].kind = "mousedown"
        /\ event[p].target.inLabel /\ event[p].target.inQuarter
        /\ event[p].target.inMonthYear
        /\ event[p].handlers = <<"handleQuarterClick">>
        /\ pc[p] = "done"

\* The month index (0..11) a label text names, -1 if it names none.
LabelMonth(span) ==
    IF Len(span) # 2 THEN -1
    ELSE IF IndexIn(MonthsShort, span[1]) # 0 THEN IndexIn(MonthsShort, span[1]) - 1
    ELSE IndexIn(Months, span[1]) - 1

\* handleQuarterClick has passed a date to the formatter in invocation p.
QuarterFormatted(p) ==
    /\ event[p].kind = "mousedown"
    /\ event[p].handlers = <<"handleQuarterClick">>
    /\ Started(p)

\* C11: handleQuarterClick opens or creates the note of the first month of
\* the quarter of the displayed month m: the month of the date it formats is
\* one of 0, 3, 6, 9, is at most m and at least m - 2, and the date is day 1
\* of that month in the year of the displayed month.
C11_QuarterStartsTheQuarter ==
    \A p \in Procs :
        QuarterFormatted(p) =>
            LET m == LabelMonth(event[p].span)
                d == event[p].date
            IN  /\ m \in 0..11
                /\ d.month \in {0, 3, 6, 9}
                /\ d.month <= m /\ m <= d.month + 2
                /\ d.date = 1
                /\ d.year = event[p].span[2]
                /\ config[p].fileName = Format(d, settings.quarterlyNoteFormat)

C11_Witness ==
    \E p \in Procs :
        /\ QuarterFormatted(p)
        /\ LabelMonth(event[p].span) = 11
        /\ event[p].date.month = 9
        /\ pc[p] = "done"

\* The aria-label of the day tile of January d, 2024.
JanuaryLabel(d) == <<"January", DayWords[d], ",", "2024">>

\* The day tile at index N * 7 for the clicked week-number tile N: its place
\* in the sequence of day tiles, 0 if the click was on no week-number tile or
\* the tile does not carry a date that parses as 'MMMM D, YYYY'.
WeekTilePlace(e) ==
    LET k == e.weekIndex * 7 + 1
    IN  IF /\ e.weekIndex >= 0
           /\ k \in DOMAIN e.dayTiles
           /\ e.dayTiles[k].abbr
           /\ \E d \in 1..31 : e.dayTiles[k].label = JanuaryLabel(d)
        THEN k ELSE 0

\* C12: handleWeekNumberClick takes the weekly note's date from the day tile
\* at index N * 7, N the index of the clicked week-number tile, and names the
\* note by that date in the weekly format, folder and template; it performs
\* no vault operation when the clicked element is no week-number tile, when
\* there is no day tile at N * 7, when that tile has no abbr[aria-label], or
\* when its label does not parse as 'MMMM D, YYYY'.
C12_WeekNoteFromFirstDayOfWeek ==
    \A p \in Procs :
        event[p].kind = "weekclick" =>
            LET e == event[p]
                k == WeekTilePlace(e)
            IN  IF k # 0
                THEN /\ Started(p)
                     /\ e.date.year = "2024" /\ e.date.month = 0
                     /\ e.dayTiles[k].label = JanuaryLabel(e.date.date)
                     /\ config[p] = [fileName |-> Format(e.date, settings.weeklyNoteFormat),
                                     folder |-> settings.weeklyNoteFolder,
                                     templatePath |-> settings.weeklyNoteTemplate]
                     /\ config[p].fileName[5] = DayTwoDigits[e.date.date]
                ELSE /\ pc[p] = "returned"
                     /\ calls[p] = <<>>
                     /\ vault = vault0

\* A click on the second week-number tile has made the note of January 8.
C12_Witness ==
    \E p \in Procs :
        /\ event[p].kind = "weekclick"
        /\ event[p].weekIndex = 1
        /\ event[p].date.date = 8
        /\ pc[p] = "done"
        /\ CallsWhere(p, IsCreation) # {}

\* The clicks on a week-number tile that lead to no vault operation happen.
C12_NoOpReached ==
    \E p \in Procs :
        /\ event[p].kind = "weekclick"
        /\ event[p].weekIndex = 1
        /\ event[p].dayTiles = [MonthTiles EXCEPT ![LastRow] = Tile(<<"foo">>)]
        /\ pc[p] = "returned"

\* A calendar handler has called openOrCreateNote in invocation p.
HandlerCalled(p) == event[p].kind # "none" /\ Started(p)

\* C13: no calendar handler (the daily item of the context menu, the click on
\* a week number, on a month label, on the navigation label's month or
\* quarter) calls openOrCreateNote with a file name formatted from an
\* invalid date.
C13_NoFileNameFromInvalidDate ==
    \A p \in Procs :
        HandlerCalled(p) =>
            /\ IsValid(event[p].date)
            /\ config[p].fileName # <<"Invalid Date">>

\* The same for the handlers that test the date they parsed: all but the
\* context menu's.
C13_TestedHandlers ==
    \A p \in Procs :
        (HandlerCalled(p) /\ event[p].kind # "contextmenu") =>
            /\ IsValid(event[p].date)
            /\ config[p].fileName # <<"Invalid Date">>

\* The daily item of the context menu has made a note for a valid date.
C13_DailyNoteOfValidDate ==
    \E p \in Procs :
        /\ event[p].kind = "contextmenu"
        /\ pc[p] = "done"
        /\ IsValid(event[p].date)
        /\ CallsWhere(p, IsCreation) # {}

\* The calls invocation p makes in a step.
NewCalls(p) == {i \in DOMAIN calls'[p] : i > Len(calls[p])}

\* C14: under any interleaving of two or more invocations that share a
\* missing directory or the same missing note, no invocation calls
\* createFolder or vault.create on a path that is already in the vault at the
\* moment of the call.
C14_NoCallOnExistingPath ==
    [][\A p \in Procs : \A i \in NewCalls(p) :
          calls'[p][i].op \in {"createFolder", "create"} =>
              ~Truthy(GetAbstractFileByPath(vault, calls'[p][i].path))]_vars

\* The part of C14 about createFolder: the test of the folder and the call
\* are one step.
C14_CreateFolderOnMissingPath ==
    [][\A p \in Procs : \A i \in NewCalls(p) :
          calls'[p][i].op = "createFolder" =>
              ~Truthy(GetAbstractFileByPath(vault, calls'[p][i].path))]_vars

\* C15: when a host call rejects (createFolder, vault.create or the
\* Templater creation), no later step of that invocation runs: the rejected
\* call is the invocation's last and the invocation has failed; openLinkText
\* is called in the creation branch only after a vault.create of that path
\* that did not reject; and a creation call is made only after createFolder
\* calls that all resolved.
C15_RejectionEndsTheInvocation ==
    \A p \in Procs :
        /\ \A i \in rejected[p] :
               /\ calls[p][i].op \in VaultWriteOps
               /\ i = Len(calls[p])
               /\ pc[p] = "failed"
        /\ \A i \in DOMAIN calls[p] :
               (calls[p][i].op = "openLinkText" /\ calls[p][i].by = "createNoteWithTemplate") =>
                   \E j \in 1..(i - 1) :
                       /\ calls[p][j].op = "create"
                       /\ calls[p][j].path = calls[p][i].path
                       /\ j \notin rejected[p]
                       /\ Truthy(GetAbstractFileByPath(vault, calls[p][j].path))
        /\ \A i \in DOMAIN calls[p] :
               IsCreation(calls[p][i]) =>
                   \A j \in 1..(i - 1) :
                       IsCreateFolder(calls[p][j]) =>
                           /\ j \notin rejected[p]
                           /\ FolderEntry(calls[p][j].path) \in vault

\* A failed invocation takes no step any more.
C15_FailedStaysFailed ==
    [][\A p \in Procs : pc[p] = "failed" => pc'[p] = "failed" /\ calls'[p] = calls[p]]_vars

\* One invocation's createFolder has rejected while another, racing for the
\* same note, made its folders and its note.
C15_Witness ==
    \E p, q \in Procs :
        /\ p # q
        /\ \E i \in rejected[p] : IsCreateFolder(calls[p][i])
        /\ pc[p] = "failed"
        /\ pc[q] = "done"
        /\ CallsWhere(q, IsCreateFolder) # {}
        /\ CallsWhere(q, IsCreation) # {}

\* A creation call has rejected.
C15_CreationRejected ==
    \E p \in Procs : \E i \in rejected[p] : IsCreation(calls[p][i])

====
